---------------------------- MODULE Spec2Model ----------------------------
(***************************************************************************)
(* Model of reader/header.go of r6-dissect: the check of the magic         *)
(* (readHeaderMagic), the header decoder (readHeader) and the player       *)
(* scanner (readPlayers).                                                  *)
(*                                                                         *)
(* Strings read from the file are sequences of one-character strings, so   *)
(* that strconv.Atoi and time.Parse are modelled by what they do to the    *)
(* characters.  Keys are compared only with literals and are kept as       *)
(* TLA+ strings.  The empty Go string is << >>.                            *)
(***************************************************************************)
EXTENDS Integers, Sequences, FiniteSets

VARIABLES
    pc,             \* position of the decode: "magic", "scan", "magicdone",
                    \* "loop", "assemble", "returned", "players", "done"
    offset,         \* readHeaderMagic: r.offset
    nZero,          \* readHeaderMagic: n, the zero bytes counted in a row
    tRuns,          \* readHeaderMagic: t, the sequences of zero bytes counted
    scanned,        \* the bytes the loop of readHeaderMagic has read (the consumed input)
    merr,           \* what readHeaderMagic returned ("none" while it has not returned)
    stream,         \* the key/value pairs readHeader has read so far (the consumed input)
    props,          \* readHeader: props map
    gmSettings,     \* readHeader: gmSettings slice
    players,        \* readHeader: players slice
    currentPlayer,  \* readHeader: currentPlayer
    playerData,     \* readHeader: playerData flag
    ret,            \* what readHeader returned: [h, err]
    Header,         \* r.Header
    i,              \* readPlayers: loop counter
    perr,           \* what readPlayers returned ("none" while it has not returned)
    seen,           \* the last scanner record read for each username
    failed          \* the call of readPlayers that failed, and its error

vars == <<pc, offset, nZero, tRuns, scanned, merr,
          stream, props, gmSettings, players, currentPlayer, playerData,
          ret, Header, i, perr, seen, failed>>

magicVars == <<offset, nZero, tRuns, scanned, merr>>
headerLocals == <<stream, props, gmSettings, players, currentPlayer, playerData>>
scannerVars == <<Header, i, perr, seen, failed>>

---------------------------------------------------------------------------
(* Bounds of the model.                                                    *)

\* Most pairs of the well-formed header stream that are replaced by a
\* malformed variant in one run.
MaxBad == 1
\* Most pairs of the free window of grouping pairs in one run.
MaxFree == 4
\* Most player records of the header in a full decode.
MaxHeaderPlayers == 2
\* Most bytes the loop of readHeaderMagic reads in one run.
MaxScan == 15

\* readPlayers: for i := 0; i < 10; i++
ScanLimit == 10

---------------------------------------------------------------------------
(* strconv.Atoi and time.Parse                                             *)

Digits == {"0", "1", "2", "3", "4", "5", "6", "7", "8", "9"}

DigitValue(c) ==
    CASE c = "0" -> 0 [] c = "1" -> 1 [] c = "2" -> 2 [] c = "3" -> 3
      [] c = "4" -> 4 [] c = "5" -> 5 [] c = "6" -> 6 [] c = "7" -> 7
      [] c = "8" -> 8 [] c = "9" -> 9

AllDigits(s) == \A n \in 1..Len(s) : s[n] \in Digits

RECURSIVE DigitsValue(_)
DigitsValue(s) ==
    IF s = << >> THEN 0
    ELSE DigitsValue(SubSeq(s, 1, Len(s) - 1)) * 10 + DigitValue(s[Len(s)])

\* The digits s without the zeros it starts with.
RECURSIVE StripZeros(_)
StripZeros(s) ==
    IF s # << >> /\ s[1] = "0" THEN StripZeros(Tail(s)) ELSE s

\* The number the digits a spell is greater than the number of the digits b
\* (compared digit by digit, for numbers of any size).
DigitsGreater(a, b) ==
    LET x == StripZeros(a)
        y == StripZeros(b)
    IN  \/ Len(x) > Len(y)
        \/ /\ Len(x) = Len(y)
           /\ \E j \in 1..Len(x) :
                 /\ DigitValue(x[j]) > DigitValue(y[j])
                 /\ \A m \in 1..(j - 1) : x[m] = y[m]

\* 1<<63 - 1, 1<<63 and 1<<64 - 1
MaxInt64Digits ==
    <<"9", "2", "2", "3", "3", "7", "2", "0", "3", "6",
      "8", "5", "4", "7", "7", "5", "8", "0", "7">>
MinInt64Digits ==
    <<"9", "2", "2", "3", "3", "7", "2", "0", "3", "6",
      "8", "5", "4", "7", "7", "5", "8", "0", "8">>
MaxUint64Digits ==
    <<"1", "8", "4", "4", "6", "7", "4", "4", "0", "7",
      "3", "7", "0", "9", "5", "5", "1", "6", "1", "5">>

\* The error of strconv.Atoi(s), for the 64-bit int.  A string shorter than
\* 19 characters is read directly: an optional sign, then at least one digit
\* and digits only, or a syntax error.  A longer one goes to ParseInt, whose
\* ParseUint reads the characters in turn and gives a syntax error at the
\* first that is no digit, unless the digits before it already pass
\* 1<<64 - 1, which is a range error; a number of digits only that does not
\* fit the int64 is a range error as well.
AtoiErr(s) ==
    LET signed == Len(s) > 0 /\ s[1] \in {"-", "+"}
        neg    == signed /\ s[1] = "-"
        body   == IF signed THEN Tail(s) ELSE s
    IN  IF Len(s) < 19
        THEN IF Len(body) > 0 /\ AllDigits(body) THEN "nil" ELSE "ErrSyntax"
        ELSE LET nondigits == {j \in 1..Len(body) : body[j] \notin Digits}
                 bad == IF nondigits = {} THEN Len(body) + 1
                        ELSE CHOOSE j \in nondigits : \A m \in nondigits : j <= m
                 d   == SubSeq(body, 1, bad - 1)
             IN  IF DigitsGreater(d, MaxUint64Digits) THEN "ErrRange"
                 ELSE IF bad <= Len(body) THEN "ErrSyntax"
                 ELSE IF neg /\ DigitsGreater(d, MinInt64Digits) THEN "ErrRange"
                 ELSE IF ~neg /\ DigitsGreater(d, MaxInt64Digits) THEN "ErrRange"
                 ELSE "nil"

\* The integer of strconv.Atoi(s): the number spelled, 0 with a syntax
\* error, and the nearest int64 with a range error.
AtoiValue(s) ==
    LET signed == Len(s) > 0 /\ s[1] \in {"-", "+"}
        neg    == signed /\ s[1] = "-"
        body   == IF signed THEN Tail(s) ELSE s
    IN  CASE AtoiErr(s) = "nil"       -> IF neg THEN 0 - DigitsValue(body)
                                         ELSE DigitsValue(body)
          [] AtoiErr(s) = "ErrSyntax" -> 0
          [] AtoiErr(s) = "ErrRange"  -> IF neg THEN 0 - DigitsValue(MinInt64Digits)
                                         ELSE DigitsValue(MaxInt64Digits)

\* n, err := strconv.Atoi(s)
Atoi(s) == [n |-> AtoiValue(s), err |-> AtoiErr(s)]

ZeroTime ==
    [Year |-> 1, Month |-> 1, Day |-> 1, Hour |-> 0, Minute |-> 0, Second |-> 0,
     Nanosecond |-> 0]

IsLeap(y) == y % 4 = 0 /\ (y % 100 # 0 \/ y % 400 = 0)

DaysIn(m, y) ==
    IF m = 2 THEN (IF IsLeap(y) THEN 29 ELSE 28)
    ELSE IF m \in {4, 6, 9, 11} THEN 30 ELSE 31

RECURSIVE Pow10(_)
Pow10(e) == IF e = 0 THEN 1 ELSE 10 * Pow10(e - 1)

\* The minor number of the Go release that builds the program (goversion
\* "1.17"); the time package reads a long fractional second differently from
\* Go 1.18 on.
GoMinor == 17

\* parseNanoseconds accepts the digits f of a fractional second.  Up to Go
\* 1.17 all the digits are read as one number, which must be below 1e9 (more
\* than nine digits pass only with zeros in front); from Go 1.18 on only the
\* first nine digits are read.
FractionInRange(f) == GoMinor >= 18 \/ Len(StripZeros(f)) <= 9

\* parseNanoseconds: the accepted digits of a fractional second as
\* nanoseconds.  Up to nine digits are scaled to nine.  Of ten digits or more,
\* Go 1.17 keeps the number as it is, unscaled, and Go 1.18 drops the digits
\* after the ninth.
Nanoseconds(f) ==
    IF Len(f) <= 9 THEN DigitsValue(f) * Pow10(9 - Len(f))
    ELSE IF GoMinor >= 18 THEN DigitsValue(SubSeq(f, 1, 9))
    ELSE DigitsValue(StripZeros(f))

\* time.Parse("2006-01-02-15-04-05", s), as the Go 1.17 library does it: a
\* four-digit year, two-digit month, day and minute, an hour of one or two
\* digits and the seconds, joined by "-", each in its range.  After the
\* seconds the value may go on with a fractional second, "." or "," and
\* digits only, although the layout has none; a fraction that
\* parseNanoseconds does not accept fails the parse.  The error of reading the
\* two digits of the seconds is not tested before the fraction is looked
\* for, and reading the fraction replaces it: a value whose seconds are
\* missing and that goes on with a fraction at their place parses, with 0
\* seconds.
TimeParse(s) ==
    LET hw    == IF Len(s) >= 13 /\ s[12] \in Digits /\ s[13] \in Digits THEN 2 ELSE 1
        e     == 11 + hw
        num(a, b) == DigitsValue(SubSeq(s, a, b))
        dig(a, b) == \A n \in a..b : s[n] \in Digits
        \* getnum found the two digits of the seconds
        secs  == dig(e + 5, e + 6)
        \* the place of the "." or "," of a fraction
        sep   == IF secs THEN e + 7 ELSE e + 5
        frac  == SubSeq(s, sep + 1, Len(s))
        shape == /\ Len(s) >= e + 6
                 /\ dig(1, 4) /\ s[5] = "-"
                 /\ dig(6, 7) /\ s[8] = "-"
                 /\ dig(9, 10) /\ s[11] = "-"
                 /\ dig(12, e) /\ s[e + 1] = "-"
                 /\ dig(e + 2, e + 3) /\ s[e + 4] = "-"
                 /\ \/ secs /\ Len(s) = e + 6
                    \/ /\ Len(s) >= sep + 1
                       /\ s[sep] \in {".", ","}
                       /\ dig(sep + 1, Len(s))
                       /\ FractionInRange(frac)
        t     == [Year |-> num(1, 4), Month |-> num(6, 7), Day |-> num(9, 10),
                  Hour |-> num(12, e), Minute |-> num(e + 2, e + 3),
                  Second |-> IF secs THEN num(e + 5, e + 6) ELSE 0,
                  Nanosecond |-> IF Len(s) >= sep THEN Nanoseconds(frac) ELSE 0]
    IN  IF /\ shape
           /\ t.Month \in 1..12
           /\ t.Hour < 24 /\ t.Minute < 60 /\ t.Second < 60
           /\ t.Day \in 1..DaysIn(t.Month, t.Year)
        THEN [t |-> t, err |-> "nil"]
        ELSE [t |-> ZeroTime, err |-> "ErrTimeParse"]

---------------------------------------------------------------------------
(* types.Player, types.Team, types.Header                                  *)

EmptyPlayer ==
    [ID |-> << >>, ProfileID |-> << >>, Username |-> << >>, TeamIndex |-> 0,
     HeroName |-> 0, Alliance |-> 0, RoleImage |-> 0, RoleName |-> << >>,
     RolePortrait |-> 0]

EmptyTeam == [Name |-> << >>, Score |-> 0]

\* types.Header{}: Teams is indexed 0 and 1 as in the code.
EmptyHeader ==
    [GameVersion |-> << >>, CodeVersion |-> 0, Timestamp |-> ZeroTime,
     MatchType |-> 0, Map |-> 0, RecordingPlayerID |-> << >>,
     RecordingProfileID |-> << >>, AdditionalTags |-> << >>, GameMode |-> 0,
     RoundsPerMatch |-> 0, RoundsPerMatchOvertime |-> 0, RoundNumber |-> 0,
     OvertimeRoundNumber |-> 0, Teams |-> [t \in {0, 1} |-> EmptyTeam],
     PlaylistCategory |-> 0, MatchID |-> << >>,
     GMSettings |-> << >>, Players |-> << >>]

---------------------------------------------------------------------------
(* readHeader: one iteration of the read loop                              *)

\* props[k] of a Go map: the empty string when k is absent.
Get(m, k) == IF k \in DOMAIN m THEN m[k] ELSE << >>

\* props[k] = v
SetProp(m, k, v) == [x \in DOMAIN m \cup {k} |-> IF x = k THEN v ELSE m[x]]

\* Mutant: a new record does not reset currentPlayer.
StartPlayer_NoReset(L, k) ==
    IF k = "playerid"
    THEN [L EXCEPT !.players = IF L.playerData
                               THEN Append(L.players, L.currentPlayer)
                               ELSE L.players,
                   !.playerData = TRUE]
    ELSE L

\* Mutant: a new record does not append the player in progress.
StartPlayer_DropsOpenRecord(L, k) ==
    IF k = "playerid"
    THEN [L EXCEPT !.playerData = TRUE, !.currentPlayer = EmptyPlayer]
    ELSE L

\* if k == "playerid" { ... }
StartPlayer(L, k) ==
    IF k = "playerid"
    THEN [L EXCEPT !.players = IF L.playerData
                               THEN Append(L.players, L.currentPlayer)
                               ELSE L.players,
                   !.playerData = TRUE,
                   !.currentPlayer = EmptyPlayer]
    ELSE L

\* Mutant: only playlistcategory ends a player record.
EndPlayer_CategoryOnly(L, k) ==
    IF k = "playlistcategory" /\ L.playerData
    THEN [L EXCEPT !.players = Append(L.players, L.currentPlayer),
                   !.playerData = FALSE]
    ELSE L

\* if (k == "playlistcategory" || k == "id") && playerData { ... }
EndPlayer(L, k) ==
    IF k \in {"playlistcategory", "id"} /\ L.playerData
    THEN [L EXCEPT !.players = Append(L.players, L.currentPlayer),
                   !.playerData = FALSE]
    ELSE L

\* Mutant: a GM setting is appended and stored in props as well.
StoreProp_AlsoMapsGMSetting(L, k, v) ==
    IF k # "gmsetting"
    THEN [L |-> [L EXCEPT !.props = SetProp(L.props, k, v)], err |-> "nil"]
    ELSE IF AtoiErr(v) # "nil" THEN [L |-> L, err |-> AtoiErr(v)]
         ELSE [L |-> [L EXCEPT !.gmSettings = Append(L.gmSettings, AtoiValue(v)),
                               !.props = SetProp(L.props, k, v)],
               err |-> "nil"]

\* if !playerData: if k != "gmsetting" { props[k] = v } else { ... append }
StoreProp(L, k, v) ==
    IF k # "gmsetting"
    THEN [L |-> [L EXCEPT !.props = SetProp(L.props, k, v)], err |-> "nil"]
    ELSE IF AtoiErr(v) # "nil" THEN [L |-> L, err |-> AtoiErr(v)]
         ELSE [L |-> [L EXCEPT !.gmSettings = Append(L.gmSettings, AtoiValue(v))],
               err |-> "nil"]

\* One integer field of the in-progress player.
IntField(L, f, v) ==
    IF AtoiErr(v) # "nil" THEN [L |-> L, err |-> AtoiErr(v)]
    ELSE [L |-> [L EXCEPT !.currentPlayer[f] = AtoiValue(v)], err |-> "nil"]

\* One string field of the in-progress player.
StringField(L, f, v) == [L |-> [L EXCEPT !.currentPlayer[f] = v], err |-> "nil"]

\* else: switch k { case "playerid": ... }
StorePlayerField(L, k, v) ==
    CASE k = "playerid"     -> StringField(L, "ID", v)
      [] k = "playername"   -> StringField(L, "Username", v)
      [] k = "team"         -> IntField(L, "TeamIndex", v)
      [] k = "heroname"     -> IntField(L, "HeroName", v)
      [] k = "alliance"     -> IntField(L, "Alliance", v)
      [] k = "roleimage"    -> IntField(L, "RoleImage", v)
      [] k = "rolename"     -> StringField(L, "RoleName", v)
      [] k = "roleportrait" -> IntField(L, "RolePortrait", v)
      [] OTHER              -> [L |-> L, err |-> "nil"]

\* Mutant: the loop tests for teamscore0.
LastProp_Score0(L) == "teamscore0" \in DOMAIN L.props

\* _, lastProp = props["teamscore1"]
LastProp(L) == "teamscore1" \in DOMAIN L.props

\* The body of the read loop for the pair (k, v), on the locals L.
HeaderIteration(L, k, v) ==
    LET L2 == EndPlayer(StartPlayer(L, k), k)
    IN  IF ~L2.playerData THEN StoreProp(L2, k, v)
        ELSE StorePlayerField(L2, k, v)

---------------------------------------------------------------------------
(* readHeader: assembly of the header from props, after the loop           *)

\* The properties read after the loop, in the order of the code: the key, the
\* field it fills and how it is parsed.  "int" and "time" return the error of
\* a failed parse; "optint" (playlistcategory) logs it and stores the integer
\* that Atoi returned with it; "string" is copied.
AssemblySteps ==
    << [key |-> "version",                field |-> "GameVersion",            kind |-> "string"],
       [key |-> "code",                   field |-> "CodeVersion",            kind |-> "int"],
       [key |-> "datetime",               field |-> "Timestamp",              kind |-> "time"],
       [key |-> "matchtype",              field |-> "MatchType",              kind |-> "int"],
       [key |-> "worldid",                field |-> "Map",                    kind |-> "int"],
       [key |-> "recordingplayerid",      field |-> "RecordingPlayerID",      kind |-> "string"],
       [key |-> "recordingprofileid",     field |-> "RecordingProfileID",     kind |-> "string"],
       [key |-> "additionaltags",         field |-> "AdditionalTags",         kind |-> "string"],
       [key |-> "gamemodeid",             field |-> "GameMode",               kind |-> "int"],
       [key |-> "roundspermatch",         field |-> "RoundsPerMatch",         kind |-> "int"],
       [key |-> "roundspermatchovertime", field |-> "RoundsPerMatchOvertime", kind |-> "int"],
       [key |-> "roundnumber",            field |-> "RoundNumber",            kind |-> "int"],
       [key |-> "overtimeroundnumber",    field |-> "OvertimeRoundNumber",    kind |-> "int"],
       [key |-> "teamname0",              field |-> "Teams[0].Name",          kind |-> "string"],
       [key |-> "teamname1",              field |-> "Teams[1].Name",          kind |-> "string"],
       [key |-> "playlistcategory",       field |-> "PlaylistCategory",       kind |-> "optint"],
       [key |-> "id",                     field |-> "MatchID",                kind |-> "string"],
       [key |-> "teamscore0",             field |-> "Teams[0].Score",         kind |-> "int"],
       [key |-> "teamscore1",             field |-> "Teams[1].Score",         kind |-> "int"] >>

\* Mutant: the score of team 0 is written to team 1.
SetField_Score0ToTeam1(h, f, x) ==
    CASE f = "Teams[0].Name"  -> [h EXCEPT !.Teams[0].Name = x]
      [] f = "Teams[1].Name"  -> [h EXCEPT !.Teams[1].Name = x]
      [] f = "Teams[0].Score" -> [h EXCEPT !.Teams[1].Score = x]
      [] f = "Teams[1].Score" -> [h EXCEPT !.Teams[1].Score = x]
      [] OTHER                -> [h EXCEPT ![f] = x]

\* h.<field> = x
SetField(h, f, x) ==
    CASE f = "Teams[0].Name"  -> [h EXCEPT !.Teams[0].Name = x]
      [] f = "Teams[1].Name"  -> [h EXCEPT !.Teams[1].Name = x]
      [] f = "Teams[0].Score" -> [h EXCEPT !.Teams[0].Score = x]
      [] f = "Teams[1].Score" -> [h EXCEPT !.Teams[1].Score = x]
      [] OTHER                -> [h EXCEPT ![f] = x]

\* Mutant: a failed parse of playlistcategory is returned like the others.
ApplyStep_FatalCategory(h, s, raw) ==
    CASE s.kind = "string" -> [h |-> SetField(h, s.field, raw), err |-> "nil"]
      [] s.kind \in {"int", "optint"} ->
            IF AtoiErr(raw) # "nil" THEN [h |-> h, err |-> AtoiErr(raw)]
            ELSE [h |-> SetField(h, s.field, AtoiValue(raw)), err |-> "nil"]
      [] s.kind = "time" ->
            LET a == TimeParse(raw)
            IN  IF a.err # "nil" THEN [h |-> h, err |-> a.err]
                ELSE [h |-> SetField(h, s.field, a.t), err |-> "nil"]

\* One step on the header h, with raw the text of the property: a failed
\* "int" or "time" parse leaves h as it is and gives the error; a failed
\* "optint" parse is logged and the integer Atoi returned is stored.
ApplyStep(h, s, raw) ==
    CASE s.kind = "string" -> [h |-> SetField(h, s.field, raw), err |-> "nil"]
      [] s.kind = "int" ->
            IF AtoiErr(raw) # "nil" THEN [h |-> h, err |-> AtoiErr(raw)]
            ELSE [h |-> SetField(h, s.field, AtoiValue(raw)), err |-> "nil"]
      [] s.kind = "time" ->
            LET a == TimeParse(raw)
            IN  IF a.err # "nil" THEN [h |-> h, err |-> a.err]
                ELSE [h |-> SetField(h, s.field, a.t), err |-> "nil"]
      [] s.kind = "optint" ->
            [h |-> SetField(h, s.field, AtoiValue(raw)), err |-> "nil"]

\* The steps from step n on: the first error returns the header as filled so
\* far together with the error.
RECURSIVE RunAssembly(_, _, _)
RunAssembly(h, m, n) ==
    IF n > Len(AssemblySteps) THEN [h |-> h, err |-> "nil"]
    ELSE LET r == ApplyStep(h, AssemblySteps[n], Get(m, AssemblySteps[n].key))
         IN  IF r.err # "nil" THEN r ELSE RunAssembly(r.h, m, n + 1)

\* Mutant: the header literal leaves Players out.
AssembleHeader_NoPlayers(m, ps, gm) ==
    RunAssembly([EmptyHeader EXCEPT !.GMSettings = gm], m, 1)

\* h := types.Header{Teams, Players, GMSettings}, then the steps.
AssembleHeader(m, ps, gm) ==
    RunAssembly([EmptyHeader EXCEPT !.Players = ps, !.GMSettings = gm], m, 1)

---------------------------------------------------------------------------
(* The header streams of the model                                         *)

Pair(k, v) == [k |-> k, v |-> v]

DateValue ==
    <<"2", "0", "2", "2", "-", "0", "1", "-", "0", "2", "-",
      "0", "3", "-", "0", "4", "-", "0", "5">>

\* A datetime whose seconds are missing, with a fraction at their place.
DateWithoutSeconds == SubSeq(DateValue, 1, 17) \o <<".", "5">>

\* Fractional seconds of ten digits: 0.0000000001 s and 0.1234567891 s.
LongFraction == <<"0", "0", "0", "0", "0", "0", "0", "0", "0", "1">>

WideFraction == <<"1", "2", "3", "4", "5", "6", "7", "8", "9", "1">>

\* The top-level properties that precede the player records.
Preamble ==
    << Pair("version", <<"Y">>),
       Pair("code", <<"7">>),
       Pair("datetime", DateValue),
       Pair("matchtype", <<"2">>),
       Pair("worldid", <<"5">>),
       Pair("recordingplayerid", <<"r">>),
       Pair("recordingprofileid", <<"q">>),
       Pair("additionaltags", <<"t">>),
       Pair("gamemodeid", <<"1">>),
       Pair("roundspermatch", <<"6">>),
       Pair("roundspermatchovertime", <<"3">>),
       Pair("roundnumber", <<"2">>),
       Pair("overtimeroundnumber", <<"0">>),
       Pair("teamname0", <<"A">>),
       Pair("teamname1", <<"B">>) >>

\* A well-formed rest of the stream: two player records, the keys that end
\* them, a GM setting and the scores.
CanonTail ==
    << Pair("playerid", <<"1">>),
       Pair("playername", <<"a">>),
       Pair("team", <<"1">>),
       Pair("heroname", <<"9">>),
       Pair("playerid", <<"2">>),
       Pair("playername", <<"b">>),
       Pair("rolename", <<"R">>),
       Pair("playlistcategory", <<"4">>),
       Pair("id", <<"m">>),
       Pair("gmsetting", <<"8">>),
       Pair("teamscore0", <<"3">>),
       Pair("teamscore1", <<"1">>) >>

Template == Preamble \o CanonTail

Trailer == << Pair("teamscore0", <<"3">>), Pair("teamscore1", <<"1">>) >>

\* The keys whose pair may be replaced by a malformed variant.
PerturbKeys ==
    {"code", "datetime", "matchtype", "worldid", "gamemodeid", "roundspermatch",
     "roundspermatchovertime", "roundnumber", "overtimeroundnumber",
     "team", "heroname", "playlistcategory", "gmsetting", "teamscore0",
     "teamscore1"}

\* The variants of a pair: a value that is no number, a negative number, the
\* pair missing (its key replaced by a key the decoder does not know), a
\* number that does not fit the int64 (1<<63), and for datetime a value with
\* a fractional second: of one digit, of ten digits in range (1 ns unscaled
\* under Go 1.17) and of ten digits out of range, and a value whose seconds
\* are missing before the fraction.  playlistcategory gets no
\* number out of range: the decoder would store 1<<63 - 1, which is beyond
\* the integers TLC computes.
Variants(p) ==
    IF p.k \in PerturbKeys
    THEN {p, Pair(p.k, <<"x">>), Pair(p.k, <<"-", "2">>), Pair("unknown", p.v)}
           \cup (IF p.k \notin {"playlistcategory", "datetime"}
                 THEN {Pair(p.k, MinInt64Digits)} ELSE {})
           \cup (IF p.k = "datetime"
                 THEN {Pair(p.k, DateValue \o <<".", "5">>),
                       Pair(p.k, DateWithoutSeconds),
                       Pair(p.k, DateValue \o <<".">> \o LongFraction),
                       Pair(p.k, DateValue \o <<",">> \o WideFraction)}
                 ELSE {})
    ELSE {p}

\* The pairs of the free window: any order of the keys that group players.
FreePairs ==
    { Pair("playerid", <<"1">>), Pair("playerid", <<"2">>),
      Pair("playername", <<"a">>), Pair("playername", <<"b">>),
      Pair("team", <<"5">>),
      Pair("playlistcategory", <<"4">>), Pair("id", <<"m">>),
      Pair("gmsetting", <<"8">>), Pair("gmsetting", <<"6">>),
      Pair("teamscore1", <<"9">>) }

IsPrefix(s, t) == Len(s) <= Len(t) /\ s = SubSeq(t, 1, Len(s))

\* s starts a stream that is the template with at most MaxBad pairs replaced.
InPerturbed(s) ==
    /\ Len(s) <= Len(Template)
    /\ \A n \in 1..Len(s) : s[n] \in Variants(Template[n])
    /\ Cardinality({n \in 1..Len(s) : s[n] # Template[n]}) <= MaxBad

\* The pairs that may follow s in such a stream.
PerturbedNext(s) ==
    IF InPerturbed(s) /\ Len(s) < Len(Template)
    THEN IF Cardinality({n \in 1..Len(s) : s[n] # Template[n]}) < MaxBad
         THEN Variants(Template[Len(s) + 1])
         ELSE {Template[Len(s) + 1]}
    ELSE {}

\* The pairs that may follow s in a stream that is the preamble, a window of
\* at most MaxFree free pairs, and the trailer.
FreeNext(s) ==
    IF Len(s) < Len(Preamble)
    THEN IF IsPrefix(s, Preamble) THEN {Preamble[Len(s) + 1]} ELSE {}
    ELSE IF ~IsPrefix(Preamble, s) THEN {}
    ELSE LET w == SubSeq(s, Len(Preamble) + 1, Len(s))
         IN  IF \A n \in 1..Len(w) : w[n] \in FreePairs
             THEN (IF Len(w) < MaxFree THEN FreePairs ELSE {}) \cup {Trailer[1]}
             ELSE IF /\ w[Len(w)] = Trailer[1]
                     /\ \A n \in 1..(Len(w) - 1) : w[n] \in FreePairs
                  THEN {Trailer[2]}
                  ELSE {}

\* The pairs that may come next in a run of the header decoder alone.
HeaderInputs == PerturbedNext(stream) \cup FreeNext(stream)

PlayerIDs == <<"1", "2", "3", "4", "5", "6", "7", "8", "9">>

\* The pairs that may come next in a full decode: the preamble, at most
\* MaxHeaderPlayers records (playerid, playername, optionally team), then
\* playlistcategory, id, a GM setting and the scores; code, datetime and
\* teamscore0 may carry a value that is no number, and datetime a value whose
\* seconds are missing before a fraction (in a header without players).
DecodeInputs ==
    LET n == Len(stream)
    IN  IF n < Len(Preamble)
        THEN {Preamble[n + 1]} \cup
             (IF Preamble[n + 1].k = "code" THEN {Pair("code", <<"x">>)} ELSE {})
             \cup
             (IF Preamble[n + 1].k = "datetime"
              THEN {Pair("datetime", <<"x">>), Pair("datetime", DateWithoutSeconds)}
              ELSE {})
        ELSE LET last   == stream[n].k
                 cnt    == Cardinality({m \in 1..n : stream[m].k = "playerid"})
                 plain  == \A m \in 1..n :
                               stream[m].k = "datetime" => stream[m].v = DateValue
                 newRec == IF cnt < MaxHeaderPlayers /\ plain
                           THEN {Pair("playerid", <<PlayerIDs[cnt + 1]>>)}
                           ELSE {}
                 close  == {Pair("playlistcategory", <<"4">>)}
             IN  CASE last = "teamname1"  -> newRec \cup close
                   [] last = "playerid"   ->
                        {Pair("playername", <<"a">>), Pair("playername", <<"b">>)}
                   [] last = "playername" -> {Pair("team", <<"5">>)} \cup newRec \cup close
                   [] last = "team"       -> newRec \cup close
                   [] last = "playlistcategory" -> {Pair("id", <<"m">>)}
                   [] last = "id"         -> {Pair("gmsetting", <<"8">>)}
                   [] last = "gmsetting"  ->
                        {Pair("teamscore0", <<"3">>), Pair("teamscore0", <<"x">>)}
                   [] last = "teamscore0" -> {Pair("teamscore1", <<"1">>)}
                   [] OTHER               -> {}

---------------------------------------------------------------------------
(* readHeader                                                              *)

Locals ==
    [props |-> props, gmSettings |-> gmSettings, players |-> players,
     currentPlayer |-> currentPlayer, playerData |-> playerData]

SetLocals(L) ==
    /\ props' = L.props
    /\ gmSettings' = L.gmSettings
    /\ players' = L.players
    /\ currentPlayer' = L.currentPlayer
    /\ playerData' = L.playerData

NoLocals ==
    [props |-> << >>, gmSettings |-> << >>, players |-> << >>,
     currentPlayer |-> EmptyPlayer, playerData |-> FALSE]

\* The errors of readHeaderString: a failed read, or a wrong separator.
ReadStringErrs == {"ErrUnexpectedEOF", "ErrInvalidStringSep"}

\* One iteration of the loop that reads a key and a value: the pair is
\* processed, and the loop ends when props holds teamscore1 or a value
\* fails to parse.
ReadHeaderPair(Inputs) ==
    /\ pc = "loop"
    /\ \E p \in Inputs :
          LET r == HeaderIteration(Locals, p.k, p.v)
          IN  /\ stream' = Append(stream, p)
              /\ SetLocals(r.L)
              /\ IF r.err # "nil"
                 THEN /\ ret' = [h |-> EmptyHeader, err |-> r.err]
                      /\ pc' = "returned"
                 ELSE /\ ret' = ret
                      /\ pc' = IF LastProp(r.L) THEN "assemble" ELSE "loop"
    /\ UNCHANGED <<magicVars, scannerVars>>

\* One iteration in which readHeaderString fails for the key or the value.
ReadHeaderFail ==
    /\ pc = "loop"
    /\ \E e \in ReadStringErrs : ret' = [h |-> EmptyHeader, err |-> e]
    /\ pc' = "returned"
    /\ UNCHANGED <<magicVars, headerLocals, scannerVars>>

\* The code after the loop: the header is assembled and returned.
Assemble ==
    /\ pc = "assemble"
    /\ ret' = AssembleHeader(props, players, gmSettings)
    /\ pc' = "returned"
    /\ UNCHANGED <<magicVars, headerLocals, scannerVars>>

\* The caller keeps the header of a successful readHeader in r.Header and
\* goes on to readPlayers; the locals of readHeader are gone.
StoreHeader ==
    /\ pc = "returned"
    /\ ret.err = "nil"
    /\ Header' = ret.h
    /\ pc' = "players"
    /\ stream' = << >>
    /\ SetLocals(NoLocals)
    /\ UNCHANGED <<magicVars, ret, i, perr, seen, failed>>

---------------------------------------------------------------------------
(* readPlayers                                                             *)

\* The values the model draws for the scanner records.
Indicators == {4, 7, 0, -3}
ScanNames == {<<"a">>, <<"b">>}
ProfileIDs == {<<"u">>, <<"w">>}

\* Go's % truncates toward zero.
GoRem(a, b) == IF a >= 0 THEN a % b ELSE 0 - ((0 - a) % b)

\* Mutant: the test is written for odd values, teamIndicator%2 == 1, which a
\* negative odd value does not meet in Go.
TeamIndexOf_OddTest(t) == IF GoRem(t, 2) = 1 THEN 0 ELSE 1

\* Mutant: the index is computed as 1 - teamIndicator%2.
TeamIndexOf_Subtract(t) == 1 - GoRem(t, 2)

\* teamIndex := 0; if teamIndicator%2 == 0 { teamIndex = 1 }
TeamIndexOf(t) == IF GoRem(t, 2) = 0 THEN 1 ELSE 0

\* Mutant: the loop compares the player's ID with the username.
FindPlayer_ByID(ps, username) ==
    LET hits == {n \in 1..Len(ps) : ps[n].ID = username}
    IN  IF hits = {} THEN 0 ELSE CHOOSE n \in hits : \A m \in hits : n <= m

\* The index the range loop stops at: the first player with the username,
\* or 0 when found stays false.
FindPlayer(ps, username) ==
    LET hits == {n \in 1..Len(ps) : ps[n].Username = username}
    IN  IF hits = {} THEN 0 ELSE CHOOSE n \in hits : \A m \in hits : n <= m

\* Mutant: a found player gets the profile id only.
Reconcile_ProfileOnly(ps, username, profileID, teamIndex) ==
    LET n == FindPlayer(ps, username)
    IN  IF n # 0
        THEN [ps EXCEPT ![n].ProfileID = profileID]
        ELSE Append(ps, [EmptyPlayer EXCEPT !.ProfileID = profileID,
                                            !.Username = username,
                                            !.TeamIndex = teamIndex])

\* Mutant: a found player is replaced by the scanner's player.
Reconcile_ReplacesEntry(ps, username, profileID, teamIndex) ==
    LET n == FindPlayer(ps, username)
        player == [EmptyPlayer EXCEPT !.ProfileID = profileID,
                                      !.Username = username,
                                      !.TeamIndex = teamIndex]
    IN  IF n # 0 THEN [ps EXCEPT ![n] = player] ELSE Append(ps, player)

\* Mutant: found is not set, so the scanner's player is appended as well.
Reconcile_AlwaysAppends(ps, username, profileID, teamIndex) ==
    LET n == FindPlayer(ps, username)
        player == [EmptyPlayer EXCEPT !.ProfileID = profileID,
                                      !.Username = username,
                                      !.TeamIndex = teamIndex]
    IN  IF n # 0
        THEN Append([ps EXCEPT ![n].ProfileID = profileID, ![n].TeamIndex = teamIndex],
                    player)
        ELSE Append(ps, player)

\* The player is updated in place when found and appended otherwise.
Reconcile(ps, username, profileID, teamIndex) ==
    LET n == FindPlayer(ps, username)
    IN  IF n # 0
        THEN [ps EXCEPT ![n].ProfileID = profileID, ![n].TeamIndex = teamIndex]
        ELSE Append(ps, [EmptyPlayer EXCEPT !.ProfileID = profileID,
                                            !.Username = username,
                                            !.TeamIndex = teamIndex])

ScanRecord(t, u, p) == [TeamIndicator |-> t, Username |-> u, ProfileID |-> p]

\* Mutant: the loop runs once more, i <= 10.
Continues_OffByOne(c) == c <= ScanLimit

\* for i := 0; i < 10; i++
Continues(c) == c < ScanLimit

\* The end of the records as Seek reports it.
CleanEnd == <<"Seek(indicator)", "ErrMagicMismatch">>

\* The calls of one iteration that fail before the player list is touched,
\* and the errors each can return.
EarlyFailures ==
    { <<"Seek(indicator)", "ErrRead">>,
      <<"ReadInt", "ErrUnexpectedEOF">>,
      <<"Read(12)", "ErrUnexpectedEOF">>,
      <<"ReadString(username)", "ErrUnexpectedEOF">>,
      <<"Seek(profileIDIndicator)", "ErrMagicMismatch">>,
      <<"Seek(profileIDIndicator)", "ErrRead">>,
      <<"ReadString(profileID)", "ErrUnexpectedEOF">> }

\* The calls that fail after the player list was reconciled.
LateFailures ==
    { <<"Seek(unknownIndicator)", "ErrMagicMismatch">>,
      <<"Seek(unknownIndicator)", "ErrRead">>,
      <<"Read(30)", "ErrUnexpectedEOF">> }

NoFailure == [call |-> "none", err |-> "nil"]

\* Mutant: the end of the records is returned like every other error.
ReturnOf_EndIsFatal(f) == f[2]

\* Mutant: a marker that is not found ends the loop, whichever marker it is.
ReturnOf_AnyNotFoundEnds(f) == IF f[2] = "ErrMagicMismatch" THEN "nil" ELSE f[2]

\* What readPlayers returns when the call f[1] fails with f[2]: the loop
\* breaks and nil is returned when Seek(indicator) gives
\* zstd.ErrMagicMismatch, and the error is returned in every other case.
ReturnOf(f) == IF f = CleanEnd THEN "nil" ELSE f[2]

\* The records a full decode may read.
DecodeRecords ==
    {ScanRecord(t, u, p) : t \in Indicators, u \in ScanNames, p \in ProfileIDs}

\* The usernames of a scan of many players, in the order they first appear.
ManyNames ==
    << <<"a">>, <<"b">>, <<"c">>, <<"d">>, <<"e">>, <<"f">>,
       <<"g">>, <<"h">>, <<"j">>, <<"k">>, <<"l">> >>

\* The records such a scan may read next: one of a player it has read
\* before, or one of the next player.
ManyRecords ==
    LET known == Cardinality(DOMAIN seen)
        upto  == IF known < Len(ManyNames) THEN known + 1 ELSE known
    IN  {ScanRecord(7, ManyNames[m], <<"u">>) : m \in 1..upto}

\* One whole iteration: every call succeeds.
ScanPlayer(Records) ==
    /\ pc = "players"
    /\ Continues(i)
    /\ \E r \in Records :
          /\ Header' = [Header EXCEPT
                          !.Players = Reconcile(Header.Players, r.Username, r.ProfileID,
                                                TeamIndexOf(r.TeamIndicator))]
          /\ seen' = SetProp(seen, r.Username, r)
    /\ i' = i + 1
    /\ UNCHANGED <<pc, perr, failed, ret, magicVars, headerLocals>>

\* Seek(indicator) returns zstd.ErrMagicMismatch: break, Flush, return nil.
ScanEnd ==
    /\ pc = "players"
    /\ Continues(i)
    /\ perr' = ReturnOf(CleanEnd)
    /\ failed' = [call |-> CleanEnd[1], err |-> CleanEnd[2]]
    /\ pc' = "done"
    /\ UNCHANGED <<Header, i, seen, ret, magicVars, headerLocals>>

\* i reached 10: the loop ends, Flush, return nil.
ScanFull ==
    /\ pc = "players"
    /\ ~Continues(i)
    /\ perr' = "nil"
    /\ pc' = "done"
    /\ UNCHANGED <<Header, i, seen, failed, ret, magicVars, headerLocals>>

\* A call before the reconciliation fails: return err.
ScanFailEarly ==
    /\ pc = "players"
    /\ Continues(i)
    /\ \E f \in EarlyFailures :
          /\ perr' = ReturnOf(f)
          /\ failed' = [call |-> f[1], err |-> f[2]]
    /\ pc' = "done"
    /\ UNCHANGED <<Header, i, seen, ret, magicVars, headerLocals>>

\* The record is read and reconciled, then Seek(unknownIndicator) or
\* Read(30) fails: return err.
ScanFailLate(Records) ==
    /\ pc = "players"
    /\ Continues(i)
    /\ \E r \in Records :
          /\ Header' = [Header EXCEPT
                          !.Players = Reconcile(Header.Players, r.Username, r.ProfileID,
                                                TeamIndexOf(r.TeamIndicator))]
          /\ seen' = SetProp(seen, r.Username, r)
    /\ \E f \in LateFailures :
          /\ perr' = ReturnOf(f)
          /\ failed' = [call |-> f[1], err |-> f[2]]
    /\ pc' = "done"
    /\ UNCHANGED <<i, ret, magicVars, headerLocals>>

---------------------------------------------------------------------------
(* readHeaderMagic                                                         *)

Dissect == <<"d", "i", "s", "s", "e", "c", "t">>

\* What r.Read(7) can give: the 7 bytes read, or an error.
MagicReads ==
    { [b |-> Dissect, err |-> "nil"],
      [b |-> <<"d", "i", "s", "s", "e", "c", "T">>, err |-> "nil"],
      [b |-> <<"R", "a", "r", "!", "x", "y", "z">>, err |-> "nil"],
      [b |-> << >>, err |-> "ErrUnexpectedEOF"],
      [b |-> << >>, err |-> "ErrRead"] }

\* A zero byte, and a byte that is not zero.
Bytes == {0, 255}

\* What r.compressed.Read(b) can give for the one-byte buffer: a byte, no
\* byte and no error, or an error with or without a byte.
ByteReads ==
    [len : {1}, b : Bytes, err : {"nil"}]
      \cup { [len |-> 0, b |-> 0, err |-> "nil"],
             [len |-> 0, b |-> 0, err |-> "EOF"],
             [len |-> 0, b |-> 0, err |-> "ErrRead"],
             [len |-> 1, b |-> 0, err |-> "EOF"] }

\* b, err := r.Read(7); the error, ErrInvalidFile for another magic, or nil.
MagicResult(r) ==
    IF r.err # "nil" THEN r.err
    ELSE IF r.b # Dissect THEN "ErrInvalidFile"
    ELSE "nil"

\* if err != nil { return err }; if len != 1 { return ErrInvalidFile }
ByteResult(r) ==
    IF r.err # "nil" THEN r.err
    ELSE IF r.len # 1 THEN "ErrInvalidFile"
    ELSE "nil"

\* if b[0] == 0x00 { if n != 6 { n++ } else { n = 0; t++ } } else if n > 0 { n = 0 }
CountZero(c, b) ==
    IF b = 0
    THEN IF c.n # 6 THEN [n |-> c.n + 1, t |-> c.t]
         ELSE [n |-> 0, t |-> c.t + 1]
    ELSE IF c.n > 0 THEN [n |-> 0, t |-> c.t]
    ELSE c

\* b, err := r.Read(7) and the test of the magic.
ReadMagic ==
    /\ pc = "magic"
    /\ \E r \in MagicReads :
          /\ offset' = offset + Len(r.b)
          /\ IF MagicResult(r) # "nil"
             THEN merr' = MagicResult(r) /\ pc' = "magicdone"
             ELSE merr' = merr /\ pc' = "scan"
    /\ UNCHANGED <<nZero, tRuns, scanned, headerLocals, ret, scannerVars>>

\* One iteration of for t != 2 in which a byte is read and counted.
ScanByte ==
    /\ pc = "scan"
    /\ tRuns # 2
    /\ Len(scanned) < MaxScan
    /\ \E r \in ByteReads :
          /\ ByteResult(r) = "nil"
          /\ offset' = offset + r.len
          /\ scanned' = Append(scanned, r.b)
          /\ LET c == CountZero([n |-> nZero, t |-> tRuns], r.b)
             IN  /\ nZero' = c.n
                 /\ tRuns' = c.t
                 /\ IF c.t # 2
                    THEN merr' = merr /\ pc' = "scan"
                    ELSE merr' = "nil" /\ pc' = "magicdone"
    /\ UNCHANGED <<headerLocals, ret, scannerVars>>

\* One iteration in which the read fails or gives no byte.
ScanByteFail ==
    /\ pc = "scan"
    /\ tRuns # 2
    /\ \E r \in ByteReads :
          /\ ByteResult(r) # "nil"
          /\ offset' = offset + r.len
          /\ merr' = ByteResult(r)
    /\ pc' = "magicdone"
    /\ UNCHANGED <<nZero, tRuns, scanned, headerLocals, ret, scannerVars>>

---------------------------------------------------------------------------
(* Specifications                                                          *)

Init ==
    /\ pc = "loop"
    /\ stream = << >>
    /\ props = << >>
    /\ gmSettings = << >>
    /\ players = << >>
    /\ currentPlayer = EmptyPlayer
    /\ playerData = FALSE
    /\ ret = [h |-> EmptyHeader, err |-> "nil"]
    /\ Header = EmptyHeader
    /\ i = 0
    /\ perr = "none"
    /\ seen = << >>
    /\ failed = NoFailure
    /\ offset = 0
    /\ nZero = 0
    /\ tRuns = 0
    /\ scanned = << >>
    /\ merr = "none"

\* readHeader alone, on the perturbed and the free streams.
ReadHeaderLoop == ReadHeaderPair(HeaderInputs)

NextHeader == ReadHeaderLoop \/ ReadHeaderFail \/ Assemble

SpecHeader == Init /\ [][NextHeader]_vars

\* The full decode: readHeader, then readPlayers.
DecodeHeaderLoop == ReadHeaderPair(DecodeInputs)

DecodeScanPlayer == ScanPlayer(DecodeRecords)
DecodeScanFailLate == ScanFailLate(DecodeRecords)

Next ==
    \/ DecodeHeaderLoop
    \/ ReadHeaderFail
    \/ Assemble
    \/ StoreHeader
    \/ DecodeScanPlayer
    \/ ScanEnd
    \/ ScanFull
    \/ ScanFailEarly
    \/ DecodeScanFailLate

Spec == Init /\ [][Next]_vars

\* readPlayers alone, after the decode of a header without players, on a
\* scan of many players.  Its reads return, so a step of its loop that can be
\* taken is taken.
NoPlayersStream ==
    Preamble \o << Pair("playlistcategory", <<"4">>), Pair("id", <<"m">>),
                   Pair("gmsetting", <<"8">>),
                   Pair("teamscore0", <<"3">>), Pair("teamscore1", <<"1">>) >>

\* The locals L of readHeader together with the error its loop returns.
LoopResult(L, e) ==
    [props |-> L.props, gmSettings |-> L.gmSettings, players |-> L.players,
     currentPlayer |-> L.currentPlayer, playerData |-> L.playerData, err |-> e]

\* The loop of readHeader on the pairs n.. of the stream s, which ends with
\* its last pair: the locals when the loop is left, and the error when it is
\* left by a return.  The loop goes on until props holds teamscore1; a pair
\* that fails returns its error, and so does the read after the last pair.
\* (r is the one result of the iteration on the pair n.)
RECURSIVE RunLoop(_, _, _)
RunLoop(L, s, n) ==
    IF n > Len(s) THEN LoopResult(L, "ErrUnexpectedEOF")
    ELSE CHOOSE res \in
             { IF r.err # "nil" THEN LoopResult(r.L, r.err)
               ELSE IF LastProp(r.L) THEN LoopResult(r.L, "nil")
               ELSE RunLoop(r.L, s, n + 1) :
                   r \in {HeaderIteration(L, s[n].k, s[n].v)} } : TRUE

\* What readHeader returns on the stream s: the empty header with the error
\* of the loop, or the header assembled after the loop.
ReadHeaderOf(s) ==
    LET r == RunLoop(NoLocals, s, 1)
    IN  IF r.err # "nil" THEN [h |-> EmptyHeader, err |-> r.err]
        ELSE AssembleHeader(r.props, r.players, r.gmSettings)

InitPlayers ==
    /\ pc = "players"
    /\ ret = ReadHeaderOf(NoPlayersStream)
    /\ Header = ReadHeaderOf(NoPlayersStream).h
    /\ stream = << >>
    /\ props = << >>
    /\ gmSettings = << >>
    /\ players = << >>
    /\ currentPlayer = EmptyPlayer
    /\ playerData = FALSE
    /\ i = 0
    /\ perr = "none"
    /\ seen = << >>
    /\ failed = NoFailure
    /\ offset = 0
    /\ nZero = 0
    /\ tRuns = 0
    /\ scanned = << >>
    /\ merr = "none"

ManyScanPlayer == ScanPlayer(ManyRecords)
ManyScanFailLate == ScanFailLate(ManyRecords)

NextPlayers ==
    \/ ManyScanPlayer
    \/ ScanEnd
    \/ ScanFull
    \/ ScanFailEarly
    \/ ManyScanFailLate

SpecPlayers == InitPlayers /\ [][NextPlayers]_vars /\ WF_vars(NextPlayers)

\* readHeaderMagic alone, on the streams of at most 7 + MaxScan bytes.
InitMagic ==
    /\ pc = "magic"
    /\ offset = 0
    /\ nZero = 0
    /\ tRuns = 0
    /\ scanned = << >>
    /\ merr = "none"
    /\ stream = << >>
    /\ props = << >>
    /\ gmSettings = << >>
    /\ players = << >>
    /\ currentPlayer = EmptyPlayer
    /\ playerData = FALSE
    /\ ret = [h |-> EmptyHeader, err |-> "nil"]
    /\ Header = EmptyHeader
    /\ i = 0
    /\ perr = "none"
    /\ seen = << >>
    /\ failed = NoFailure

NextMagic == ReadMagic \/ ScanByte \/ ScanByteFail

SpecMagic == InitMagic /\ [][NextMagic]_vars

---------------------------------------------------------------------------
(* Notions the claims are stated with                                      *)

\* The player list readHeader returned, before the scanner touched it.
HeaderPlayers == ret.h.Players

Scanning == pc \in {"players", "done"}

\* The full decode ended and readPlayers returned nil.
DecodeSucceeded == pc = "done" /\ perr = "nil"

Usernames(ps) == {ps[n].Username : n \in 1..Len(ps)}

\* The first entry of ps with the username u.
FirstWith(ps, u) ==
    CHOOSE n \in 1..Len(ps) :
        ps[n].Username = u /\ \A m \in 1..(n - 1) : ps[m].Username # u

Abs(t) == IF t < 0 THEN 0 - t ELSE t

IsEven(t) == \E k \in (0 - Abs(t))..Abs(t) : t = 2 * k

\* The team index the specification gives a team indicator.
ParityIndex(t) == IF IsEven(t) THEN 1 ELSE 0

SetMax(S) == CHOOSE x \in S : \A y \in S : y <= x
SetMin(S) == CHOOSE x \in S : \A y \in S : x <= y

\* The read loop ended because props holds teamscore1.
LoopEnded == pc = "assemble" \/ (pc = "returned" /\ "teamscore1" \in DOMAIN props)

\* readHeader returned from inside the read loop.
LoopFailed == pc = "returned" /\ "teamscore1" \notin DOMAIN props

\* The keys at which the grouping state machine of the specification moves.
BoundaryKeys == {"playerid", "playlistcategory", "id"}

\* After the first n pairs of s the state machine is in PlayerRecord: the
\* last boundary key among them is playerid.
InRecord(s, n) ==
    LET B == {m \in 1..n : s[m].k \in BoundaryKeys}
    IN  B # {} /\ s[SetMax(B)].k = "playerid"

RecordStarts(s) == {a \in 1..Len(s) : s[a].k = "playerid"}

\* The place of the j-th playerid pair of s.
RecordStart(s, j) ==
    CHOOSE a \in RecordStarts(s) : Cardinality({m \in RecordStarts(s) : m <= a}) = j

\* The record that starts at a has ended: a boundary key follows it.
RecordClosed(s, a) == \E b \in (a + 1)..Len(s) : s[b].k \in BoundaryKeys

\* The last pair of the record that starts at a.
RecordEnd(s, a) ==
    LET B == {b \in (a + 1)..Len(s) : s[b].k \in BoundaryKeys}
    IN  IF B = {} THEN Len(s) ELSE SetMin(B) - 1

\* The value of the last pair with key k among the pairs a..e of s.
LastValue(s, a, e, k, default) ==
    LET H == {m \in a..e : s[m].k = k}
    IN  IF H = {} THEN default ELSE s[SetMax(H)].v

\* The identifier, username and team the stream gives the record at a.
RecordFields(s, a) ==
    [ID        |-> s[a].v,
     Username  |-> LastValue(s, a, RecordEnd(s, a), "playername", << >>),
     TeamIndex |-> Atoi(LastValue(s, a, RecordEnd(s, a), "team", <<"0">>)).n]

ThreeFields(q) == [ID |-> q.ID, Username |-> q.Username, TeamIndex |-> q.TeamIndex]

\* v is the text of an integer: an optional sign and then digits.
IsInteger(v) ==
    /\ Len(v) > 0
    /\ \/ v[1] \in Digits /\ \A n \in 1..Len(v) : v[n] \in Digits
       \/ v[1] \in {"+", "-"} /\ Len(v) > 1 /\ \A n \in 2..Len(v) : v[n] \in Digits

\* The integer v spells fits the int64.
FitsInt64(v) ==
    LET neg  == v[1] = "-"
        body == IF v[1] \in {"+", "-"} THEN Tail(v) ELSE v
    IN  IF neg THEN ~DigitsGreater(body, MinInt64Digits)
        ELSE ~DigitsGreater(body, MaxInt64Digits)

\* v is the text of an integer the decoder can hold.
WellFormedInt(v) == IsInteger(v) /\ FitsInt64(v)

RequiredInts ==
    {"code", "matchtype", "worldid", "gamemodeid", "roundspermatch",
     "roundspermatchovertime", "roundnumber", "overtimeroundnumber",
     "teamscore0", "teamscore1"}

\* h.<field>
GetField(h, f) ==
    CASE f = "Teams[0].Name"  -> h.Teams[0].Name
      [] f = "Teams[1].Name"  -> h.Teams[1].Name
      [] f = "Teams[0].Score" -> h.Teams[0].Score
      [] f = "Teams[1].Score" -> h.Teams[1].Score
      [] OTHER                -> h[f]

---------------------------------------------------------------------------
(* C1 *)

\* C1 as stated: after a full decode that succeeds, no two entries of the
\* player list have the same username.
\* Refuted: two player records of the header with the same playername are
\* both appended by readHeader, and the scanner updates the first only.
C1_NoDuplicateUsernames ==
    DecodeSucceeded =>
        \A a, b \in 1..Len(Header.Players) :
            Header.Players[a].Username = Header.Players[b].Username => a = b

\* C1 amended: after readHeader, two entries of the player list with the
\* same username are both entries the header stream produced; the scanner
\* never adds an entry whose username is already in the list.
C1_DuplicatesOnlyFromHeader ==
    Scanning =>
        \A a, b \in 1..Len(Header.Players) :
            (a < b /\ Header.Players[a].Username = Header.Players[b].Username)
                => b <= Len(HeaderPlayers)

\* A successful decode in which the header gave two entries with one
\* username, the scanner saw that username and also appended another one.
C1_Witness ==
    /\ DecodeSucceeded
    /\ Len(HeaderPlayers) = 2
    /\ HeaderPlayers[1].Username = HeaderPlayers[2].Username
    /\ HeaderPlayers[1].Username \in DOMAIN seen
    /\ Len(Header.Players) = 3

---------------------------------------------------------------------------
(* C2 *)

\* C2 as stated: after readPlayers every header player whose username is in
\* a scanner record carries the profile id and the team index of the last
\* such record, and those records did not lengthen the list.
\* Refuted: of two header players with one username only the first is
\* updated.
C2_EveryMatchCarriesScan ==
    pc = "done" =>
        /\ \A n \in 1..Len(HeaderPlayers) :
              Header.Players[n].Username \in DOMAIN seen =>
                  LET r == seen[Header.Players[n].Username]
                  IN  /\ Header.Players[n].ProfileID = r.ProfileID
                      /\ Header.Players[n].TeamIndex = ParityIndex(r.TeamIndicator)
        /\ Len(Header.Players) =
              Len(HeaderPlayers)
                + Cardinality(DOMAIN seen \ Usernames(HeaderPlayers))

\* C2 amended: for every username that is in the header player list and in
\* a scanner record, the first entry with that username carries the profile
\* id and the team index of the last such record, it is an entry of the
\* header, and the list grows only by one entry per scanned username that
\* the header does not have.
C2_FirstMatchCarriesScan ==
    Scanning =>
        /\ \A u \in DOMAIN seen \cap Usernames(HeaderPlayers) :
              LET n == FirstWith(Header.Players, u)
              IN  /\ n <= Len(HeaderPlayers)
                  /\ Header.Players[n].ProfileID = seen[u].ProfileID
                  /\ Header.Players[n].TeamIndex = ParityIndex(seen[u].TeamIndicator)
        /\ Len(Header.Players) =
              Len(HeaderPlayers)
                + Cardinality(DOMAIN seen \ Usernames(HeaderPlayers))

\* readPlayers returned after several records, one of them for the second
\* header player, whose team index the scanner changed.
C2_Witness ==
    /\ pc = "done"
    /\ i >= 3
    /\ Len(HeaderPlayers) = 2
    /\ HeaderPlayers[2].Username \in DOMAIN seen
    /\ HeaderPlayers[2].Username # HeaderPlayers[1].Username
    /\ HeaderPlayers[2].TeamIndex # Header.Players[2].TeamIndex
    /\ Len(Header.Players) = 2

---------------------------------------------------------------------------
(* C3 *)

\* C3 as stated: after a full decode every player has team index 0 or 1.
\* Refuted: the header key team is stored as the integer it reads, and a
\* header player the scanner does not match keeps it.
C3_TeamIndexIsBinary ==
    DecodeSucceeded =>
        \A n \in 1..Len(Header.Players) : Header.Players[n].TeamIndex \in {0, 1}

\* C3 amended: every player the scanner matched or appended has team index
\* 0 or 1; every other player is a header player and keeps the team index
\* readHeader gave it, which is any integer the key team carried.
C3_ScannedTeamIndexIsBinary ==
    Scanning =>
        \A n \in 1..Len(Header.Players) :
            LET e == Header.Players[n]
            IN  IF e.Username \in DOMAIN seen /\ n = FirstWith(Header.Players, e.Username)
                THEN e.TeamIndex \in {0, 1}
                ELSE n <= Len(HeaderPlayers) /\ e.TeamIndex = HeaderPlayers[n].TeamIndex

\* A successful decode with a header player of team 5 the scanner did not
\* see, and a player the scanner set from a negative odd indicator.
C3_Witness ==
    /\ DecodeSucceeded
    /\ \E n \in 1..Len(Header.Players) :
          /\ Header.Players[n].TeamIndex = 5
          /\ Header.Players[n].Username \notin DOMAIN seen
    /\ \E u \in DOMAIN seen : seen[u].TeamIndicator = -3

---------------------------------------------------------------------------
(* C4 *)

\* C4 as stated: the first pair whose key is teamscore1 is the last pair
\* readHeader reads.
\* Refuted: a teamscore1 pair read inside a player record is dropped and the
\* loop goes on.
C4_StopsAtFirstTeamscore1 ==
    \A n \in 1..Len(stream) : stream[n].k = "teamscore1" => n = Len(stream)

\* C4 amended: the first teamscore1 pair read in the Header state is the
\* last pair readHeader reads and is stored in props before the loop stops;
\* a teamscore1 pair inside a player record does not stop the loop.  When
\* readHeader then succeeds on a stream whose pairs in the Header state
\* give teamscore0 = 3 and teamscore1 = 1, Teams[0].Score = 3 and
\* Teams[1].Score = 1.
C4_StopsAtFirstHeaderTeamscore1 ==
    /\ \A n \in 1..Len(stream) :
          (stream[n].k = "teamscore1" /\ ~InRecord(stream, n))
              => (n = Len(stream) /\ pc # "loop")
    /\ LoopEnded =>
          /\ stream[Len(stream)].k = "teamscore1"
          /\ ~InRecord(stream, Len(stream))
          /\ props["teamscore1"] = stream[Len(stream)].v
    /\ (pc = "returned" /\ ret.err = "nil") =>
          LET Z == {n \in 1..Len(stream) :
                      stream[n].k = "teamscore0" /\ ~InRecord(stream, n)}
          IN  /\ Z # {}
              /\ (stream[SetMax(Z)].v = <<"3">> /\ stream[Len(stream)].v = <<"1">>)
                    => (ret.h.Teams[0].Score = 3 /\ ret.h.Teams[1].Score = 1)

\* readHeader succeeded with the scores 3 and 1 on a stream that also had a
\* teamscore1 pair inside a player record.
C4_Witness ==
    /\ pc = "returned"
    /\ ret.err = "nil"
    /\ ret.h.Teams[0].Score = 3
    /\ ret.h.Teams[1].Score = 1
    /\ \E n \in 1..(Len(stream) - 1) :
          stream[n].k = "teamscore1" /\ InRecord(stream, n)

---------------------------------------------------------------------------
(* C5 *)

\* C5: the player records of the header stream yield one entry each, in
\* stream order, and each entry carries the playerid, playername and team
\* read between its own playerid pair and the next record boundary: while
\* the loop runs and after it ended, the list holds the ended records, and
\* the header returned holds that list.
C5_RecordsKeepTheirFields ==
    (pc \in {"loop", "assemble", "returned"} /\ ~LoopFailed) =>
        LET closed == {a \in RecordStarts(stream) : RecordClosed(stream, a)}
        IN  /\ Len(players) = Cardinality(closed)
            /\ \A j \in 1..Len(players) :
                  /\ RecordStart(stream, j) \in closed
                  /\ ThreeFields(players[j]) = RecordFields(stream, RecordStart(stream, j))
            /\ LoopEnded => closed = RecordStarts(stream)
            /\ pc = "returned" => ret.h.Players = players

\* The loop ended after two adjacent records: the first with a team, the
\* second without one.
C5_Witness ==
    /\ LoopEnded
    /\ Len(players) = 2
    /\ \E a, b \in RecordStarts(stream) :
          /\ RecordEnd(stream, a) = b - 1
          /\ \E m \in a..(b - 1) : stream[m].k = "team"
          /\ \A m \in b..RecordEnd(stream, b) : stream[m].k # "team"
    /\ players[1].TeamIndex # 0
    /\ players[2].TeamIndex = 0
    /\ players[1].Username = <<"a">>
    /\ players[2].Username = <<"b">>
    /\ players[1].ID # players[2].ID

---------------------------------------------------------------------------
(* C6 *)

\* C6: when a pair with key playlistcategory or id is read in the
\* PlayerRecord state, the in-progress player is appended once, the state
\* becomes Header and the pair is stored in props; the player in progress is
\* not changed by the pair.
C6_FinalizeThenRecord ==
    [][ (/\ pc = "loop"
         /\ playerData
         /\ stream' # stream
         /\ stream'[Len(stream')].k \in {"playlistcategory", "id"})
        => LET p == stream'[Len(stream')]
           IN  /\ players' = Append(players, currentPlayer)
               /\ ~playerData'
               /\ DOMAIN props' = DOMAIN props \cup {p.k}
               /\ props'[p.k] = p.v
               /\ \A k \in DOMAIN props \ {p.k} : props'[k] = props[k]
               /\ currentPlayer' = currentPlayer
               /\ gmSettings' = gmSettings ]_vars

\* The key id has just ended a player record and is in props.
C6_Witness ==
    /\ pc = "loop"
    /\ Len(stream) > 1
    /\ stream[Len(stream)].k = "id"
    /\ InRecord(stream, Len(stream) - 1)
    /\ ~playerData
    /\ Len(players) >= 1
    /\ props["id"] = stream[Len(stream)].v

---------------------------------------------------------------------------
(* C7 *)

\* C7: after the loop, readHeader fails when one of the required integer
\* properties is malformed (no integer, or one that does not fit the int64)
\* or absent, and the playlistcategory property
\* decides nothing: with the other properties well formed readHeader
\* succeeds whatever playlistcategory is, and its error and every field
\* but PlaylistCategory are those it gives with playlistcategory = 4.
C7_OnlyCategoryIsOptional ==
    (pc = "returned" /\ LoopEnded) =>
        /\ (\E k \in RequiredInts : ~WellFormedInt(Get(props, k))) => ret.err # "nil"
        /\ ( /\ \A k \in RequiredInts : WellFormedInt(Get(props, k))
             /\ TimeParse(Get(props, "datetime")).err = "nil" ) => ret.err = "nil"
        /\ LET alt == AssembleHeader(SetProp(props, "playlistcategory", <<"4">>),
                                     players, gmSettings)
           IN  /\ ret.err = alt.err
               /\ [ret.h EXCEPT !.PlaylistCategory = 0]
                    = [alt.h EXCEPT !.PlaylistCategory = 0]

\* readHeader succeeded although playlistcategory is no number.
C7_Witness ==
    /\ pc = "returned"
    /\ LoopEnded
    /\ ret.err = "nil"
    /\ ~IsInteger(Get(props, "playlistcategory"))
    /\ ret.h.Teams[1].Score = 1

---------------------------------------------------------------------------
(* C8 *)

\* C8 as stated: when readHeader or readPlayers returns an error, no partly
\* filled header is handed back and no partly updated player list is left.
\* Refuted: a failed parse after the loop returns the header filled so far,
\* and readPlayers fails after it has changed r.Header.Players.
C8_NoPartialOutcome ==
    /\ (pc = "returned" /\ ret.err # "nil") => ret.h = EmptyHeader
    /\ (pc = "done" /\ perr # "nil") => Header.Players = HeaderPlayers

\* C8 amended: an error from inside the read loop comes with the empty
\* header; an error of a parse after the loop comes with the header that
\* holds the players, the GM settings and every field assigned before the
\* failing property, the later fields being zero; an error of readPlayers
\* leaves in r.Header.Players every update and append made before the
\* failing call.
C8_PartialOutcome ==
    /\ LoopFailed => (ret.err # "nil" /\ ret.h = EmptyHeader)
    /\ (pc = "returned" /\ LoopEnded /\ ret.err # "nil") =>
          LET failing(n) ==
                  LET s == AssemblySteps[n]
                  IN  \/ s.kind = "int" /\ ~WellFormedInt(Get(props, s.key))
                      \/ s.kind = "time" /\ TimeParse(Get(props, s.key)).err # "nil"
              bad == {n \in 1..Len(AssemblySteps) : failing(n)}
              value(n) ==
                  LET s == AssemblySteps[n]
                  IN  CASE s.kind = "string" -> Get(props, s.key)
                        [] s.kind = "time"   -> TimeParse(Get(props, s.key)).t
                        [] OTHER             -> Atoi(Get(props, s.key)).n
          IN  /\ bad # {}
              /\ ret.h.Players = players
              /\ ret.h.GMSettings = gmSettings
              /\ \A n \in 1..Len(AssemblySteps) :
                    GetField(ret.h, AssemblySteps[n].field) =
                        IF n < SetMin(bad) THEN value(n)
                        ELSE GetField(EmptyHeader, AssemblySteps[n].field)
    /\ (pc = "done" /\ perr # "nil") =>
          /\ Len(Header.Players) >= Len(HeaderPlayers)
          /\ \A u \in DOMAIN seen :
                /\ u \in Usernames(Header.Players)
                /\ Header.Players[FirstWith(Header.Players, u)].ProfileID
                      = seen[u].ProfileID
                /\ Header.Players[FirstWith(Header.Players, u)].TeamIndex
                      = ParityIndex(seen[u].TeamIndicator)

\* readPlayers returned an error and left a changed player list.
C8_Witness ==
    /\ pc = "done"
    /\ perr \notin {"nil", "none"}
    /\ Header.Players # HeaderPlayers
    /\ Len(Header.Players) > Len(HeaderPlayers)

---------------------------------------------------------------------------
(* C9 *)

CounterSteps ==
    {n \in 1..Len(AssemblySteps) :
        AssemblySteps[n].key \in {"roundspermatch", "roundspermatchovertime",
                                  "roundnumber", "overtimeroundnumber",
                                  "teamscore0", "teamscore1"}}

\* C9 as stated: after a successful readHeader the round counters and both
\* scores are not negative.
\* Refuted: strconv.Atoi accepts a minus sign and nothing checks the range.
C9_CountersNonNegative ==
    (pc = "returned" /\ ret.err = "nil") =>
        \A n \in CounterSteps : GetField(ret.h, AssemblySteps[n].field) >= 0

\* C9 amended: after a successful readHeader each round counter and score
\* is the integer its property spells, sign included: its digits give the
\* magnitude, and it is negative exactly when the text starts with "-" and
\* is not zero.
C9_CountersAreTheIntegersRead ==
    (pc = "returned" /\ ret.err = "nil") =>
        \A n \in CounterSteps :
            LET raw  == Get(props, AssemblySteps[n].key)
                x    == GetField(ret.h, AssemblySteps[n].field)
                body == IF raw[1] \in {"+", "-"} THEN Tail(raw) ELSE raw
            IN  /\ WellFormedInt(raw)
                /\ Abs(x) = DigitsValue(body)
                /\ x < 0 => raw[1] = "-"
                /\ (raw[1] = "-" /\ DigitsValue(body) # 0) => x < 0

\* readHeader succeeded with a negative rounds-per-match.
C9_Witness ==
    /\ pc = "returned"
    /\ ret.err = "nil"
    /\ ret.h.RoundsPerMatch = -2
    /\ ret.h.Teams[0].Score = 3

---------------------------------------------------------------------------
(* C10 *)

\* C10: the team index the scanner assigns is 1 for an even team indicator
\* and 0 for an odd one, zero and negative values included: the entry of the
\* last record of each username has the index of that record's indicator,
\* 1 for the indicator 4 and 0 for the indicator 7.
C10_TeamIndexFromParity ==
    Scanning =>
        \A u \in DOMAIN seen :
            LET e == Header.Players[FirstWith(Header.Players, u)]
                t == seen[u].TeamIndicator
            IN  /\ e.TeamIndex = ParityIndex(t)
                /\ t = 4 => e.TeamIndex = 1
                /\ t = 7 => e.TeamIndex = 0

\* The scanner read a negative odd indicator for one username and zero for
\* another.
C10_Witness ==
    /\ pc = "done"
    /\ \E u, w \in DOMAIN seen :
          /\ seen[u].TeamIndicator = -3
          /\ seen[w].TeamIndicator = 0
          /\ Header.Players[FirstWith(Header.Players, u)].TeamIndex = 0
          /\ Header.Players[FirstWith(Header.Players, w)].TeamIndex = 1


---------------------------------------------------------------------------
(* C11 *)

\* readHeaderMagic returned nil.
MagicSucceeded == pc = "magicdone" /\ merr = "nil"

\* The bytes a..b of s are a run of zero bytes that no zero byte precedes or
\* follows.
IsZeroRun(s, a, b) ==
    /\ a <= b
    /\ \A m \in a..b : s[m] = 0
    /\ a = 1 \/ s[a - 1] # 0
    /\ b = Len(s) \/ s[b + 1] # 0

ZeroRuns(s) == {r \in (1..Len(s)) \X (1..Len(s)) : IsZeroRun(s, r[1], r[2])}

RunLength(r) == r[2] - r[1] + 1

\* C11: when readHeaderMagic returns nil, the bytes it read after the magic
\* hold two separate runs of exactly 7 zero bytes, the second of them ends
\* with the last byte read, and no longer run of zero bytes was counted.
\* Refuted by the code: the loop counts every 7 zero bytes in a row and
\* starts a new count with the next byte, so 14 zero bytes in a row give
\* t = 2 and nil, and a run of 8 zero bytes counts like a run of 7.
C11_TwoSeparateRunsOfSeven ==
    MagicSucceeded =>
        /\ \A r \in ZeroRuns(scanned) : RunLength(r) <= 7
        /\ Cardinality({r \in ZeroRuns(scanned) : RunLength(r) = 7}) = 2
        /\ \E r \in ZeroRuns(scanned) : RunLength(r) = 7 /\ r[2] = Len(scanned)

---------------------------------------------------------------------------
(* C12 *)

\* The calls of an iteration that come after the player list was changed.
LateCalls == {"Seek(unknownIndicator)", "Read(30)"}

\* The scanner records that were read and reconciled so far.
Reconciled == IF failed.call \in LateCalls THEN i + 1 ELSE i

\* The player the scanner makes of a record.
MinimalPlayer(r) ==
    [EmptyPlayer EXCEPT !.ProfileID = r.ProfileID,
                        !.Username = r.Username,
                        !.TeamIndex = ParityIndex(r.TeamIndicator)]

\* C12: a step of readPlayers in which the seek for the team marker fails
\* ends readPlayers and leaves the player list as the earlier iterations
\* made it; it returns nil when the seek reported that no marker is left
\* (zstd.ErrMagicMismatch) and the error of the seek in every other case.
C12_CleanEndStopsWithSuccess ==
    [][ (pc = "players" /\ failed'.call = "Seek(indicator)") =>
            /\ pc' = "done"
            /\ Header' = Header
            /\ failed'.err # "nil"
            /\ perr' = IF failed'.err = "ErrMagicMismatch" THEN "nil"
                       ELSE failed'.err ]_vars

\* The marker is not found after two records were read, one of which the
\* header does not have: readPlayers returns nil and the list keeps them.
C12_Witness ==
    /\ pc = "done"
    /\ failed = [call |-> "Seek(indicator)", err |-> "ErrMagicMismatch"]
    /\ perr = "nil"
    /\ i = 2
    /\ Len(Header.Players) = Len(HeaderPlayers) + 1
    /\ \E u \in DOMAIN seen :
          /\ u \in Usernames(HeaderPlayers)
          /\ Header.Players[FirstWith(Header.Players, u)].ProfileID = seen[u].ProfileID

---------------------------------------------------------------------------
(* C13 *)

\* C13: when a call of an iteration other than the seek for the team marker
\* has failed (the read of the team indicator, of the 12 bytes, of the
\* username, of the profile id or of the 30 bytes, or the seek for the
\* profile-id marker or for the unknown marker, a marker that is not found
\* included), readPlayers has returned the error of that call, never nil.
C13_LaterFailuresAreFatal ==
    (pc = "done" /\ failed.call \notin {"none", "Seek(indicator)"}) =>
        /\ failed.err # "nil"
        /\ perr = failed.err

\* The profile-id marker of the second record is not found.
C13_Witness ==
    /\ pc = "done"
    /\ i = 1
    /\ failed = [call |-> "Seek(profileIDIndicator)", err |-> "ErrMagicMismatch"]
    /\ perr = "ErrMagicMismatch"

---------------------------------------------------------------------------
(* C14 *)

\* C14: readPlayers ends; it completes at most 10 iterations and
\* reconciles at most 10 records, each of which appends at most one player;
\* and once 10 iterations are completed its only step is to return nil,
\* without a further seek.
C14_AtMostTenRecords ==
    /\ [](Scanning =>
            /\ i <= ScanLimit
            /\ Reconciled <= ScanLimit
            /\ Len(Header.Players) <= Len(HeaderPlayers) + Reconciled)
    /\ [][ (pc = "players" /\ i = ScanLimit) =>
               /\ pc' = "done"
               /\ perr' = "nil"
               /\ failed' = NoFailure
               /\ Header' = Header ]_vars
    /\ (pc = "players") ~> (pc = "done")

\* readPlayers returned after 10 completed iterations that appended 10
\* players.
C14_Witness ==
    /\ pc = "done"
    /\ i = ScanLimit
    /\ perr = "nil"
    /\ failed = NoFailure
    /\ Len(Header.Players) = Len(HeaderPlayers) + ScanLimit

\* The state readPlayers starts from in the scan of many players is a state
\* of the full decode.
PlayersStartReached ==
    /\ pc = "players"
    /\ i = 0
    /\ ret = ReadHeaderOf(NoPlayersStream)
    /\ Header = ret.h
    /\ Header.Players = << >>

---------------------------------------------------------------------------
(* C15 *)

\* The scanner record of u was read in this step, or read again with another
\* profile id or team indicator.
NewRecord(u) == u \in DOMAIN seen' /\ (u \notin DOMAIN seen \/ seen'[u] # seen[u])

\* C15: a step of readPlayers changes nothing of the header but the player
\* list.  The record r it read either matches a username of the list, and
\* then the list keeps its length and every entry but the first with that
\* username, of which only the profile id and the team index change; or it
\* matches none, and then the list is the old list with one player appended
\* that has the username, profile id and team index of r and no other field.
\* A record that was read before with the same values changes nothing.
C15_ReconcileChangesTwoFields ==
    [][ pc = "players" =>
          /\ [Header' EXCEPT !.Players = Header.Players] = Header
          /\ IF seen' = seen THEN Header' = Header
             ELSE \E u \in DOMAIN seen' :
                    /\ NewRecord(u)
                    /\ LET r  == seen'[u]
                           ps == Header.Players
                           qs == Header'.Players
                       IN  IF u \in Usernames(ps)
                           THEN /\ Len(qs) = Len(ps)
                                /\ \A m \in 1..Len(ps) :
                                      qs[m] = IF m = FirstWith(ps, u)
                                              THEN [ps[m] EXCEPT
                                                      !.ProfileID = r.ProfileID,
                                                      !.TeamIndex = ParityIndex(r.TeamIndicator)]
                                              ELSE ps[m]
                           ELSE qs = Append(ps, MinimalPlayer(r)) ]_vars

\* A record matched the first of two header players, which kept its
\* identifier, the other header player is as readHeader returned it, and a
\* record that matched none was appended.
C15_Witness ==
    /\ pc = "players"
    /\ Len(HeaderPlayers) = 2
    /\ Len(Header.Players) = 3
    /\ Header.Players[1] # HeaderPlayers[1]
    /\ Header.Players[1].ID = HeaderPlayers[1].ID
    /\ Header.Players[1].ID # << >>
    /\ Header.Players[2] = HeaderPlayers[2]
    /\ Header.Players[3] = MinimalPlayer(seen[Header.Players[3].Username])

---------------------------------------------------------------------------
(* C16 *)

\* The places of the pairs of s that are processed in the Header state: the
\* state machine is not in a player record after the pair's own key moved it.
HeaderPlaces(s) == {m \in 1..Len(s) : ~InRecord(s, m)}

\* The j-th place of the set P.
NthPlace(P, j) == CHOOSE a \in P : Cardinality({m \in P : m <= a}) = j

\* C16: as long as no pair has failed, the GM-settings list is the list of
\* the integers of the gmsetting pairs read in the Header state, in stream
\* order, and so is the list of the header that is returned; gmsetting is
\* never a key of the property map; and the map holds exactly the other keys
\* read in the Header state, each with the value of its last such pair.
C16_GMSettingsAreTheHeaderPairs ==
    ~LoopFailed =>
        LET HP == HeaderPlaces(stream)
            GP == {m \in HP : stream[m].k = "gmsetting"}
            GV == [j \in 1..Cardinality(GP) |-> Atoi(stream[NthPlace(GP, j)].v).n]
            OP == HP \ GP
        IN  /\ gmSettings = GV
            /\ pc = "returned" => ret.h.GMSettings = GV
            /\ "gmsetting" \notin DOMAIN props
            /\ DOMAIN props = {stream[m].k : m \in OP}
            /\ \A m \in OP :
                  (\A x \in OP : x > m => stream[x].k # stream[m].k)
                      => props[stream[m].k] = stream[m].v

\* A successful decode of a stream with a gmsetting pair inside a player
\* record, which is dropped, and one in the Header state after it.
C16_Witness ==
    /\ pc = "returned"
    /\ ret.err = "nil"
    /\ ret.h.GMSettings = <<6>>
    /\ \E m \in 1..Len(stream) :
          /\ stream[m] = Pair("gmsetting", <<"8">>)
          /\ InRecord(stream, m)

---------------------------------------------------------------------------
(* C17 *)

\* readHeaderMagic returned an error.
MagicFailed == pc = "magicdone" /\ merr # "nil"

\* C17: every error readHeaderMagic returns is ErrInvalidFile.
\* Refuted by the code: the error of r.Read(7) and the error of the read in
\* the loop are returned as they are.
C17_EveryErrorIsInvalidFile == MagicFailed => merr = "ErrInvalidFile"

---------------------------------------------------------------------------
(* C18 *)

\* C18: when the read loop has ended, no player is in progress, the player
\* list has one entry for each playerid pair read, the j-th entry has the
\* identifier of the j-th playerid pair, and the header that is returned has
\* this list.
C18_EveryRecordAppendedOnce ==
    LoopEnded =>
        /\ ~playerData
        /\ Len(players) = Cardinality(RecordStarts(stream))
        /\ \A j \in 1..Len(players) : players[j].ID = stream[RecordStart(stream, j)].v
        /\ pc = "returned" => ret.h.Players = players

\* The loop ended after two records, the second of which started while the
\* first was in progress and was ended by the key id.
C18_Witness ==
    /\ LoopEnded
    /\ Len(players) = 2
    /\ players[1].ID # players[2].ID
    /\ \E a \in RecordStarts(stream) :
          /\ a + 1 \in RecordStarts(stream)
          /\ stream[a + 2].k = "id"

---------------------------------------------------------------------------
(* C19 *)

\* The entries of ps with the username u.
Count(ps, u) == Cardinality({m \in 1..Len(ps) : ps[m].Username = u})

\* C19: while and after readPlayers runs, every username occurs in the
\* player list as often as in the list readHeader returned, or once when
\* readHeader returned none with it and the scanner read a record with it.
C19_CountIsMaxOfHeaderAndScan ==
    Scanning =>
        \A u \in Usernames(Header.Players) \cup Usernames(HeaderPlayers) \cup DOMAIN seen :
            Count(Header.Players, u) =
                LET h == Count(HeaderPlayers, u)
                    c == IF u \in DOMAIN seen THEN 1 ELSE 0
                IN  IF h >= c THEN h ELSE c

\* The header has two players with one username and the scanner read three
\* records, two of them with a username the header does not have.
C19_Witness ==
    /\ DecodeSucceeded
    /\ i = 3
    /\ Len(HeaderPlayers) = 2
    /\ HeaderPlayers[1].Username = HeaderPlayers[2].Username
    /\ DOMAIN seen = ScanNames
    /\ Len(Header.Players) = 3

=============================================================================
